---------------------------- MODULE Spec2Model ----------------------------
(***************************************************************************)
(* The telemetry export pipeline of shared/monitoring/yandex_cloud.py:     *)
(* YandexCloudMonitoring (IAM token cache and send_metrics) and            *)
(* MetricsCollector (metrics_buffer, add_metric, flush_metrics and         *)
(* periodic_flush), run by one asyncio event loop, together with the       *)
(* application lifespan of examples/yandex_monitoring_usage.py that starts *)
(* and stops it and the producers of shared/monitoring/middleware.py.      *)
(*                                                                         *)
(* A coroutine runs without interruption from one suspension point to the  *)
(* next, so every action below is the code between two awaits that really  *)
(* suspend: the token exchange POST (line 93) and the upload POST          *)
(* (line 148).  A metric is identified by the number of the add_metric     *)
(* call that accepted it.  The clock is read in seconds from the start of  *)
(* the lifespan; it advances in steps of whole flush intervals or token    *)
(* lifetimes, and a network call (bounded by the httpx timeouts of lines   *)
(* 92 and 147) ends before the next step.  Requests, and so producer       *)
(* calls, are served between the lifespan's startup and its shutdown; the  *)
(* event loop ends when the shutdown has run to its end.                   *)
(***************************************************************************)
EXTENDS Integers, Sequences, FiniteSets

\* ------------------------------------------------------------------ bounds
MaxMetrics == 3        \* producer calls in a run
MaxTasks == 2          \* flush tasks created by add_metric alive at a time
MaxTicks == 2          \* clock steps in a run
MaxTokens == 2         \* tokens the identity endpoint issues in a run
MaxCounted == 2        \* send_metrics calls of flush_metrics counted apart
buffer_size == 2       \* MetricsCollector.buffer_size (50 in production)

\* --------------------------------------------------------------- constants
flush_interval == 60   \* MetricsCollector.flush_interval
TokenRefreshAfter == 3300   \* _token_expires_at = current_time + 3300
TokenLifetime == 3600  \* 'exp': now + 3600

VARIABLES
    metrics_buffer,    \* MetricsCollector.metrics_buffer: sequence of metrics
    last_flush,        \* MetricsCollector._last_flush
    iam_token,         \* YandexCloudMonitoring._iam_token (0 is None)
    token_expires_at,  \* YandexCloudMonitoring._token_expires_at
    key_material,      \* service_account_key_path: "ok", "missing", "unreadable"
    now,               \* time.time()
    ticks,             \* clock steps taken
    n_added,           \* add_metric calls so far
    issued,            \* tokens issued by the identity endpoint so far
    delivered,         \* buffered metrics of the sends that returned True
    pc,                \* per task: where its coroutine is suspended
    metrics_to_send,   \* per task: the batch it handed to send_metrics
                       \* (flush_metrics' local metrics_to_send)
    current_time,      \* per task: _get_iam_token's local current_time
    tok,               \* per task: send_metrics' local iam_token (0: none yet)
    wake_at,           \* when the scheduler's asyncio.sleep ends
    via,               \* per task: which return of _get_iam_token gave tok
                       \* ("cached": line 65, "fresh": line 103)
    snap_added,        \* per task: n_added when its batch was copied (history)
    after_raise,       \* per task: raised_with = _iam_token when it called
                       \* _get_iam_token (history)
    raised_with,       \* _iam_token as the last raise of _get_iam_token left
                       \* it; -1 before any raise (history)
    enabled,           \* YC_MONITORING_ENABLED is "true"
    yc_monitoring,     \* the global _yc_monitoring is not None
    metrics_collector, \* the global _metrics_collector is not None
    lifespan,          \* where the application lifespan is
    tracked,           \* producer calls so far
    flush_sends,       \* send_metrics calls made by flush_metrics, counted
                       \* up to MaxCounted (history)
    send_returned,     \* what send_metrics returned in the step just taken,
                       \* and why (history)
    waiting_since,     \* time.time() at the add_metric call of the oldest
                       \* buffered metric that no flush_metrics has taken yet;
                       \* -1 when there is none (history)
    metrics,           \* send_metrics' argument, with labels and points
    payload,           \* send_metrics' local payload, the upload body
    base_labels,       \* YandexCloudMonitoring.base_labels
    sent_before,       \* the upload body of the send_metrics call before,
                       \* for the same argument (history)
    instances,         \* how many YandexCloudMonitoring and MetricsCollector
                       \* objects the accessors have constructed (history)
    got                \* per accessor, its latest call: the flag it read
                       \* and the instance it returned, 0 for None and -1
                       \* before the first call (history)

vars == <<metrics_buffer, last_flush, iam_token, token_expires_at, key_material,
          now, ticks, n_added, issued, delivered, pc, metrics_to_send,
          current_time, tok, wake_at, via, snap_added, after_raise,
          raised_with, enabled, yc_monitoring, metrics_collector, lifespan,
          tracked, flush_sends, send_returned, waiting_since, metrics,
          payload, base_labels, sent_before, instances, got>>

\* the variables of the collector, the token cache, the tasks and the lifespan
pipeline == <<metrics_buffer, last_flush, iam_token, token_expires_at,
              key_material, now, ticks, n_added, issued, delivered, pc,
              metrics_to_send, current_time, tok, wake_at, via, snap_added,
              after_raise, raised_with, enabled, yc_monitoring,
              metrics_collector, lifespan, tracked, flush_sends, send_returned,
              waiting_since, instances, got>>

\* The batches of the pipeline's actions are sequences of metric numbers: the
\* upload body they would be sent as is built by Payload below and checked
\* under PayloadSpec, so these stay as they start.
wire == <<metrics, payload, base_labels, sent_before>>

accessors == <<instances, got>>

Scheduler == 0
FlushTasks == 1..MaxTasks
\* the lifespan's calls run in the lifespan's own task: its final
\* flush_metrics (usage example, line 37) and its send_single_metric calls
\* (lines 26 and 43)
FinalFlush == MaxTasks + 1
Service == MaxTasks + 2
Tasks == {Scheduler} \cup FlushTasks \cup {FinalFlush, Service}
ClockSteps == {flush_interval, TokenRefreshAfter}
KeyMaterials == {"ok", "missing", "unreadable"}

\* the lifespan's own metric (service.started, service.stopped): it is sent
\* with send_single_metric and never buffered
ServiceMetric == 0

\* what makes an upload fail: a non-200 answer (162-168), a transport error or
\* the 30 s timeout (170-172)
UploadFailures == {"non200", "transport", "timeout"}

SeqToSet(s) == {s[i] : i \in 1..Len(s)}

InFlight(k) == pc[k] \in {"exchange", "upload"}

NoReturn == [cause |-> "none", value |-> "none"]

SendReturn(c, v) == [cause |-> c, value |-> v]

\* ---------------------------------------------------------- pure helpers

\* mutant: a cached token is used whatever the clock says
TokenUsable_IgnoresDeadline(token, t, expires) == token # 0

\* mutant: the deadline itself still counts as early enough
TokenUsable_AtDeadline(token, t, expires) == token # 0 /\ t <= expires

\* line 64: the cached token is used when one is cached and not yet due
TokenUsable(token, t, expires) == token # 0 /\ t < expires

\* lines 81 and 101-102: the deadline lies TokenLifetime - TokenRefreshAfter
\* (five minutes) before the token expires
TokenExpiry(deadline) == deadline + (TokenLifetime - TokenRefreshAfter)

\* mutant: the deadline is the end of the token's lifetime
RefreshDeadline_AtExpiry(t) == t + TokenLifetime

\* line 102: the refresh deadline written with a new token
RefreshDeadline(t) == t + TokenRefreshAfter

\* mutant: the flush is created one metric early
BufferFull_OneEarly(buf) == Len(buf) + 1 >= buffer_size

\* mutant: the flush is created only above buffer_size
BufferFull_Above(buf) == Len(buf) > buffer_size

\* mutant: a flush task is created only when the buffer is exactly full
BufferFull_OnlyAtCapacity(buf) == Len(buf) = buffer_size

\* line 261: the buffer has reached buffer_size
BufferFull(buf) == Len(buf) >= buffer_size

\* mutant: the batch is copied but the buffer is not cleared
ClearedBuffer_NotCleared(buf) == buf

\* lines 269-270: the buffer after the batch was copied out of it
ClearedBuffer(buf) == <<>>

\* mutant: the failed batch is assigned to the buffer instead of extending it
Requeue_Overwrites(buf, batch) == batch

\* mutant: the failed batch is not put back
Requeue_Dropped(buf, batch) == buf

\* line 277: a batch whose send failed goes back into the buffer
Requeue(buf, batch) == buf \o batch

\* mutant: the scheduler flushes at every wake-up
FlushDue_Always(t, last) == TRUE

\* mutant: the scheduler flushes only two intervals after the last flush
FlushDue_TwoIntervals(t, last) == t - last >= 2 * flush_interval

\* mutant: the scheduler never flushes
FlushDue_Never(t, last) == FALSE

\* line 285: the scheduler flushes when an interval has passed since _last_flush
FlushDue(t, last) == t - last >= flush_interval

\* mutant: the exception of a failed upload leaves send_metrics
UploadFailed_Propagates(c) == SendReturn(c, "raised")

\* lines 162-172: what send_metrics returns when the upload failed for cause c
UploadFailed(c) == SendReturn(c, "false")

\* mutant: the exception of _get_iam_token leaves send_metrics
TokenFailed_Propagates(c) == SendReturn(c, "raised")

\* lines 117 and 170-172: what send_metrics returns when _get_iam_token raised
\* for cause c ("key": lines 68, 72-73; "exchange": lines 104-109)
TokenFailed(c) == SendReturn(c, "false")

\* mutant: an instance is created whatever the flag says
GetYcMonitoring_IgnoresFlag(yc, on) == TRUE

\* mutant: the instance is dropped when the flag is off
GetYcMonitoring_FollowsFlag(yc, on) == on

\* get_yc_monitoring (294-301): whether _yc_monitoring is an instance after
\* the call; that is also what the call returns
GetYcMonitoring(yc, on) == yc \/ on

\* get_metrics_collector (304-312): whether _metrics_collector is an instance
\* after the call; that is also what the call returns
GetMetricsCollector(mc, yc, on) == mc \/ GetYcMonitoring(yc, on)

\* lines 298-299: get_yc_monitoring constructs a YandexCloudMonitoring
YcCreated(yc, on) == ~yc /\ on

\* lines 309-310: get_metrics_collector constructs a MetricsCollector
McCreated(mc, yc, on) == ~mc /\ GetYcMonitoring(yc, on)

Accessors == {"get_yc_monitoring", "get_metrics_collector"}

NeverCalled == [flag |-> FALSE, value |-> -1]

\* The globals after a call of accessor fn, and the constructions it made;
\* get_metrics_collector calls get_yc_monitoring first (line 308).
Constructs(fn) ==
    /\ yc_monitoring' = GetYcMonitoring(yc_monitoring, enabled)
    /\ metrics_collector' =
           IF fn = "get_metrics_collector"
           THEN GetMetricsCollector(metrics_collector, yc_monitoring, enabled)
           ELSE metrics_collector
    /\ instances' =
           [yc |-> instances.yc
                      + (IF YcCreated(yc_monitoring, enabled) THEN 1 ELSE 0),
            mc |-> instances.mc
                      + (IF /\ fn = "get_metrics_collector"
                            /\ McCreated(metrics_collector, yc_monitoring, enabled)
                         THEN 1 ELSE 0)]

\* What calls of the accessors fns return (lines 301 and 312): the global,
\* which is the instance constructed last, or None.
Returns(fns) ==
    got' = [fn \in Accessors |->
               IF fn \notin fns THEN got[fn]
               ELSE [flag |-> enabled,
                     value |-> IF fn = "get_metrics_collector"
                               THEN (IF metrics_collector' THEN instances'.mc
                                     ELSE 0)
                               ELSE (IF yc_monitoring' THEN instances'.yc
                                     ELSE 0)]]

\* the flush_sends counter after one more call
Counted(n) == IF n < MaxCounted THEN n + 1 ELSE n

\* mutant: task.cancel() is left out
AfterCancel_Skipped(p) == p

\* task.cancel() (usage example, line 38): the scheduler's coroutine gets
\* CancelledError at the await it is suspended in; neither send_metrics'
\* `except Exception` (170) nor flush_metrics catches it, so the task ends
\* there, with whatever batch its flush_metrics held
AfterCancel(p) == "cancelled"

\* ------------------------------------------------------- the upload body

MaxBatch == 2          \* metrics in a send_metrics call

\* __init__ (lines 53-57): the labels every metric is sent with, at the
\* defaults of service_name, ENVIRONMENT and SERVICE_VERSION
InitialBaseLabels ==
    [service |-> "property-management",
     environment |-> "development",
     version |-> "1.0.0"]

\* labels callers give their metrics (usage example, line 147): one that is
\* also a base label and one that is not
CallerLabels == [service |-> "property-service", status |-> "healthy"]

MetricLabels == {[key \in keys |-> CallerLabels[key]] : keys \in SUBSET DOMAIN CallerLabels}

MetricNames == {"requests_total", "request_duration_seconds"}

\* MetricPoint (lines 21-24)
MetricPoints == {[timestamp |-> 1700000000, value |-> 2],
                 [timestamp |-> 1700000060, value |-> 1]}

PointLists == {<<p>> : p \in MetricPoints}
                  \cup {<<p, q>> : p \in MetricPoints, q \in MetricPoints}

\* Metric (lines 28-33)
Metrics == [name : MetricNames, labels : MetricLabels, type : {"DGAUGE"},
            points : PointLists]

\* the non-empty lists send_metrics is called with
Batches == UNION {[1..n -> Metrics] : n \in 1..MaxBatch}

\* line 120, before any metric is appended
NoPayload == [metrics |-> <<>>]

\* mutant: the base labels override the metric's own
CombinedLabels_BaseWins(base, own) ==
    [key \in DOMAIN base \cup DOMAIN own |->
        IF key \in DOMAIN base THEN base[key] ELSE own[key]]

\* line 126: {**self.base_labels, **metric.labels}
CombinedLabels(base, own) ==
    [key \in DOMAIN base \cup DOMAIN own |->
        IF key \in DOMAIN own THEN own[key] ELSE base[key]]

\* mutant: the values are listed newest first
MetricData_ValuesReversed(base, metric) ==
    [name |-> metric.name,
     labels |-> CombinedLabels(base, metric.labels),
     type |-> metric.type,
     ts |-> [i \in 1..Len(metric.points) |-> metric.points[i].timestamp],
     values |-> [i \in 1..Len(metric.points) |->
                    metric.points[Len(metric.points) + 1 - i].value]]

\* lines 128-134: one entry of payload["metrics"]
MetricData(base, metric) ==
    [name |-> metric.name,
     labels |-> CombinedLabels(base, metric.labels),
     type |-> metric.type,
     ts |-> [i \in 1..Len(metric.points) |-> metric.points[i].timestamp],
     values |-> [i \in 1..Len(metric.points) |-> metric.points[i].value]]

\* lines 120-135: the body send_metrics POSTs for a batch
Payload(base, batch) ==
    [metrics |-> [i \in 1..Len(batch) |-> MetricData(base, batch[i])]]

\* ------------------------------------------------------------------ Init

Init ==
    /\ metrics_buffer = <<>>
    /\ last_flush = 0
    /\ iam_token = 0
    /\ token_expires_at = 0
    /\ key_material \in KeyMaterials
    /\ now = 0
    /\ ticks = 0
    /\ n_added = 0
    /\ issued = 0
    /\ delivered = {}
    /\ pc = [k \in Tasks |-> "idle"]
    /\ metrics_to_send = [k \in Tasks |-> <<>>]
    /\ current_time = [k \in Tasks |-> 0]
    /\ tok = [k \in Tasks |-> 0]
    /\ wake_at = 0
    /\ via = [k \in Tasks |-> "none"]
    /\ snap_added = [k \in Tasks |-> 0]
    /\ after_raise = [k \in Tasks |-> FALSE]
    /\ raised_with = -1
    /\ enabled \in BOOLEAN
    /\ yc_monitoring = FALSE
    /\ metrics_collector = FALSE
    /\ lifespan = "init"
    /\ tracked = 0
    /\ flush_sends = 0
    /\ send_returned = NoReturn
    /\ waiting_since = -1
    /\ metrics = <<>>
    /\ payload = NoPayload
    /\ base_labels = InitialBaseLabels
    /\ sent_before = NoPayload
    /\ instances = [yc |-> 0, mc |-> 0]
    /\ got = [fn \in Accessors |-> NeverCalled]

\* --------------------------------------------------------------- actions

\* Where a send_metrics call with a non-empty batch gets to before it
\* suspends or returns (lines 113-117 and 59-96): the upload with the cached
\* token, the token exchange, or the raise of lines 68 and 72-73.
SendStart ==
    IF TokenUsable(iam_token, now, token_expires_at) THEN "upload"
    ELSE IF key_material # "ok" THEN "raised"
    ELSE "exchange"

\* The lifespan calls send_single_metric (174-193; usage example, lines 26
\* and 43) after it has created (line 21) or cancelled (line 38) the
\* scheduler's task, which is then at `sched`.  `ret` is what the send_metrics
\* call before it returned in this step, `on` the phase while the metric is
\* being sent and `done` the phase when send_single_metric has returned.
LifespanSends(sched, ret, on, done) ==
    LET at == SendStart
        off == sched # pc[Scheduler]
    IN  /\ lifespan' = IF at = "raised" THEN done ELSE on
        /\ pc' = [pc EXCEPT ![Scheduler] = sched,
                            ![FinalFlush] = "idle",
                            ![Service] = IF at = "raised" THEN "idle" ELSE at]
        /\ wake_at' = IF sched = "sleep" THEN now + flush_interval ELSE wake_at
        /\ metrics_to_send' =
              [metrics_to_send EXCEPT
                  ![Scheduler] = IF off THEN <<>> ELSE @,
                  ![FinalFlush] = <<>>,
                  ![Service] = IF at = "raised" THEN <<>> ELSE <<ServiceMetric>>]
        /\ current_time' =
              [current_time EXCEPT
                  ![Scheduler] = IF off THEN 0 ELSE @,
                  ![FinalFlush] = 0,
                  ![Service] = IF at = "raised" THEN 0 ELSE now]
        /\ tok' = [tok EXCEPT
                  ![Scheduler] = IF off THEN 0 ELSE @,
                  ![FinalFlush] = 0,
                  ![Service] = IF at = "upload" THEN iam_token ELSE 0]
        /\ via' = [via EXCEPT
                  ![Scheduler] = IF off THEN "none" ELSE @,
                  ![FinalFlush] = "none",
                  ![Service] = IF at = "upload" THEN "cached" ELSE "none"]
        /\ snap_added' =
              [snap_added EXCEPT
                  ![Scheduler] = IF off THEN 0 ELSE @,
                  ![FinalFlush] = 0,
                  ![Service] = IF at = "raised" THEN 0 ELSE n_added]
        /\ after_raise' =
              [after_raise EXCEPT
                  ![Scheduler] = IF off THEN FALSE ELSE @,
                  ![FinalFlush] = FALSE,
                  ![Service] = at # "raised" /\ raised_with = iam_token]
        /\ send_returned' = IF at = "raised" THEN TokenFailed("key") ELSE ret

\* mutant: a send that failed ends the scheduler's task
Returned_FailureEndsScheduler(k, ret) ==
    IF k = FinalFlush
    THEN LifespanSends(AfterCancel(pc[Scheduler]), ret, "stopping", "stopped")
    ELSE /\ pc' = [pc EXCEPT ![k] = IF k # Scheduler THEN "idle"
                                    ELSE IF ret.value = "false" THEN "cancelled"
                                    ELSE "sleep"]
         /\ wake_at' = IF k = Scheduler THEN now + flush_interval ELSE wake_at
         /\ metrics_to_send' = [metrics_to_send EXCEPT ![k] = <<>>]
         /\ current_time' = [current_time EXCEPT ![k] = 0]
         /\ tok' = [tok EXCEPT ![k] = 0]
         /\ via' = [via EXCEPT ![k] = "none"]
         /\ snap_added' = [snap_added EXCEPT ![k] = 0]
         /\ after_raise' = [after_raise EXCEPT ![k] = FALSE]
         /\ lifespan' = IF k # Service THEN lifespan
                        ELSE IF lifespan = "starting" THEN "serving"
                        ELSE "stopped"
         /\ send_returned' = ret

\* The send_metrics call of task k has returned `ret` and its caller goes on
\* without suspending.  flush_metrics returns: a created task ends, the
\* scheduler goes back to asyncio.sleep(flush_interval) (line 283), the
\* lifespan's final flush is followed by task.cancel() and the
\* service.stopped metric (usage example, lines 37-48).  send_single_metric
\* returns to the lifespan: startup is over (line 33), or shutdown is.
Returned(k, ret) ==
    IF k = FinalFlush
    THEN LifespanSends(AfterCancel(pc[Scheduler]), ret, "stopping", "stopped")
    ELSE /\ pc' = [pc EXCEPT ![k] = IF k = Scheduler THEN "sleep" ELSE "idle"]
         /\ wake_at' = IF k = Scheduler THEN now + flush_interval ELSE wake_at
         /\ metrics_to_send' = [metrics_to_send EXCEPT ![k] = <<>>]
         /\ current_time' = [current_time EXCEPT ![k] = 0]
         /\ tok' = [tok EXCEPT ![k] = 0]
         /\ via' = [via EXCEPT ![k] = "none"]
         /\ snap_added' = [snap_added EXCEPT ![k] = 0]
         /\ after_raise' = [after_raise EXCEPT ![k] = FALSE]
         /\ lifespan' = IF k # Service THEN lifespan
                        ELSE IF lifespan = "starting" THEN "serving"
                        ELSE "stopped"
         /\ send_returned' = ret

\* The event loop runs until the lifespan's shutdown has run to its end.
Running == lifespan # "stopped"

\* Task k's send_metrics call was made by flush_metrics (line 273), not by
\* send_single_metric (line 193).
FlushCaller(k) == k # Service

\* mutant: add_metric awaits the flush instead of creating a task for it
AddMetric_AwaitsFlush ==
    /\ n_added < MaxMetrics
    /\ n_added' = n_added + 1
    /\ metrics_buffer' = Append(metrics_buffer, n_added + 1)
    /\ waiting_since' = IF waiting_since = -1 THEN now ELSE waiting_since
    /\ IF BufferFull(metrics_buffer')
       THEN /\ \E k \in FlushTasks : pc[k] = "idle"
            /\ LET k == CHOOSE j \in FlushTasks :
                          /\ pc[j] = "idle"
                          /\ \A i \in FlushTasks : pc[i] = "idle" => j <= i
               IN pc' = [pc EXCEPT ![k] = "upload"]
       ELSE pc' = pc
    /\ UNCHANGED <<last_flush, iam_token, token_expires_at, key_material, now,
                   ticks, issued, delivered, metrics_to_send, current_time,
                   tok, wake_at, via, snap_added, after_raise, raised_with>>

\* mutant: no flush task is created while one is still waiting to run
AddMetric_OneFlushAtATime ==
    /\ n_added < MaxMetrics
    /\ n_added' = n_added + 1
    /\ metrics_buffer' = Append(metrics_buffer, n_added + 1)
    /\ waiting_since' = IF waiting_since = -1 THEN now ELSE waiting_since
    /\ IF BufferFull(metrics_buffer') /\ \A i \in FlushTasks : pc[i] # "spawned"
       THEN /\ \E k \in FlushTasks : pc[k] = "idle"
            /\ LET k == CHOOSE j \in FlushTasks :
                          /\ pc[j] = "idle"
                          /\ \A i \in FlushTasks : pc[i] = "idle" => j <= i
               IN pc' = [pc EXCEPT ![k] = "spawned"]
       ELSE pc' = pc
    /\ UNCHANGED <<last_flush, iam_token, token_expires_at, key_material, now,
                   ticks, issued, delivered, metrics_to_send, current_time,
                   tok, wake_at, via, snap_added, after_raise, raised_with>>

\* add_metric (lines 256-262): append, and create a flush task when full.
AddMetric ==
    /\ n_added < MaxMetrics
    /\ n_added' = n_added + 1
    /\ metrics_buffer' = Append(metrics_buffer, n_added + 1)
    /\ waiting_since' = IF waiting_since = -1 THEN now ELSE waiting_since
    /\ IF BufferFull(metrics_buffer')
       THEN /\ \E k \in FlushTasks : pc[k] = "idle"
            /\ LET k == CHOOSE j \in FlushTasks :
                          /\ pc[j] = "idle"
                          /\ \A i \in FlushTasks : pc[i] = "idle" => j <= i
               IN pc' = [pc EXCEPT ![k] = "spawned"]
       ELSE pc' = pc
    /\ UNCHANGED <<last_flush, iam_token, token_expires_at, key_material, now,
                   ticks, issued, delivered, metrics_to_send, current_time,
                   tok, wake_at, via, snap_added, after_raise, raised_with>>

\* A producer call while requests are served: the middleware's
\* _send_request_metrics (middleware.py, lines 35-36 and 83-84) or a track_*
\* method of BusinessMetricsCollector (lines 112-113 and 131-132), one
\* add_metric call at a time.  It adds a metric if
\* get_metrics_collector() gave its object a collector, and does nothing
\* otherwise.
Track ==
    /\ UNCHANGED wire
    /\ lifespan = "serving"
    /\ tracked < MaxMetrics
    /\ tracked' = tracked + 1
    /\ Constructs("get_metrics_collector")
    /\ Returns({"get_metrics_collector"})
    /\ IF metrics_collector'
       THEN AddMetric
       ELSE UNCHANGED <<metrics_buffer, last_flush, iam_token, token_expires_at,
                        key_material, now, ticks, n_added, issued, delivered,
                        pc, metrics_to_send, current_time, tok, wake_at, via,
                        snap_added, after_raise, raised_with, waiting_since>>
    /\ send_returned' = NoReturn
    /\ UNCHANGED <<enabled, lifespan, flush_sends>>

\* mutant: the batch is the first buffer_size metrics, the rest stays buffered
Suspended_TakesPrefix(k, at, token, how) ==
    LET n == IF Len(metrics_buffer) < buffer_size THEN Len(metrics_buffer)
             ELSE buffer_size
    IN  /\ metrics_buffer' = SubSeq(metrics_buffer, n + 1, Len(metrics_buffer))
        /\ pc' = [pc EXCEPT ![k] = at]
        /\ metrics_to_send' = [metrics_to_send EXCEPT ![k] = SubSeq(metrics_buffer, 1, n)]
        /\ current_time' = [current_time EXCEPT ![k] = now]
        /\ tok' = [tok EXCEPT ![k] = token]
        /\ via' = [via EXCEPT ![k] = how]
        /\ snap_added' = [snap_added EXCEPT ![k] = n_added]
        /\ after_raise' = [after_raise EXCEPT ![k] = (raised_with = iam_token)]
        /\ wake_at' = wake_at
        /\ lifespan' = IF k = FinalFlush THEN "draining" ELSE lifespan
        /\ send_returned' = NoReturn

\* flush_metrics in task k suspends in a network call: the batch is its local
\* metrics_to_send, the buffer is what clear() left (lines 269-273).
Suspended(k, at, token, how) ==
    /\ metrics_buffer' = ClearedBuffer(metrics_buffer)
    /\ pc' = [pc EXCEPT ![k] = at]
    /\ metrics_to_send' = [metrics_to_send EXCEPT ![k] = metrics_buffer]
    /\ current_time' = [current_time EXCEPT ![k] = now]
    /\ tok' = [tok EXCEPT ![k] = token]
    /\ via' = [via EXCEPT ![k] = how]
    /\ snap_added' = [snap_added EXCEPT ![k] = n_added]
    /\ after_raise' = [after_raise EXCEPT ![k] = (raised_with = iam_token)]
    /\ wake_at' = wake_at
    /\ lifespan' = IF k = FinalFlush THEN "draining" ELSE lifespan
    /\ send_returned' = NoReturn

\* mutant: a flush that finds the buffer empty still records its time
FlushBegin_EmptyStampsLastFlush(k) ==
    IF metrics_buffer = <<>>
    THEN /\ Returned(k, NoReturn)
         /\ last_flush' = now
         /\ UNCHANGED <<metrics_buffer, raised_with, flush_sends, waiting_since>>
    ELSE /\ last_flush' = now
         /\ waiting_since' = -1
         /\ flush_sends' = Counted(flush_sends)
         /\ IF TokenUsable(iam_token, now, token_expires_at)
            THEN /\ Suspended(k, "upload", iam_token, "cached")
                 /\ raised_with' = raised_with
            ELSE IF key_material # "ok"
            THEN /\ metrics_buffer' = Requeue(ClearedBuffer(metrics_buffer), metrics_buffer)
                 /\ Returned(k, TokenFailed("key"))
                 /\ raised_with' = iam_token
            ELSE /\ Suspended(k, "exchange", 0, "none")
                 /\ raised_with' = raised_with

\* flush_metrics from its start to its first suspension (lines 264-273), with
\* send_metrics (111-117) and _get_iam_token (59-96) as far as they run.
FlushBegin(k) ==
    IF metrics_buffer = <<>>
    THEN \* lines 266-267
         /\ Returned(k, NoReturn)
         /\ UNCHANGED <<metrics_buffer, last_flush, raised_with, flush_sends,
                        waiting_since>>
    ELSE /\ last_flush' = now
         /\ waiting_since' = -1
         /\ flush_sends' = Counted(flush_sends)
         /\ IF TokenUsable(iam_token, now, token_expires_at)
            THEN \* line 65: the cached token; the payload is built and POSTed
                 /\ Suspended(k, "upload", iam_token, "cached")
                 /\ raised_with' = raised_with
            ELSE IF key_material # "ok"
            THEN \* ValueError (line 68) or open/json.load raising (72-73):
                 \* send_metrics returns False before any await suspends,
                 \* and flush_metrics extends the cleared buffer (277)
                 /\ metrics_buffer' = Requeue(ClearedBuffer(metrics_buffer), metrics_buffer)
                 /\ Returned(k, TokenFailed("key"))
                 /\ raised_with' = iam_token
            ELSE \* lines 92-96: the signed JWT is POSTed to the identity endpoint
                 /\ Suspended(k, "exchange", 0, "none")
                 /\ raised_with' = raised_with

\* A flush task created by add_metric gets to run.
FlushTaskRun(k) ==
    /\ UNCHANGED wire
    /\ UNCHANGED accessors
    /\ k \in FlushTasks
    /\ Running
    /\ pc[k] = "spawned"
    /\ FlushBegin(k)
    /\ UNCHANGED <<iam_token, token_expires_at, key_material, now, ticks,
                   n_added, issued, delivered, enabled, yc_monitoring,
                   metrics_collector, tracked>>

\* periodic_flush (lines 280-286): the sleep ends; flush if an interval has
\* passed since _last_flush, else sleep again.
SchedulerWake ==
    /\ UNCHANGED wire
    /\ UNCHANGED accessors
    /\ Running
    /\ pc[Scheduler] = "sleep"
    /\ now >= wake_at
    /\ IF FlushDue(now, last_flush)
       THEN FlushBegin(Scheduler)
       ELSE /\ wake_at' = now + flush_interval
            /\ send_returned' = NoReturn
            /\ UNCHANGED <<metrics_buffer, last_flush, pc, metrics_to_send,
                           current_time, tok, via, snap_added, after_raise,
                           raised_with, lifespan, flush_sends, waiting_since>>
    /\ UNCHANGED <<iam_token, token_expires_at, key_material, now, ticks,
                   n_added, issued, delivered, enabled, yc_monitoring,
                   metrics_collector, tracked>>

\* lifespan startup (usage example, lines 18-31): with a collector, the
\* scheduler's task is created and the service.started metric is sent; the
\* application serves requests when that send has returned (line 33).
LifespanStartup ==
    /\ UNCHANGED wire
    /\ UNCHANGED waiting_since
    /\ lifespan = "init"
    /\ Constructs("get_metrics_collector")
    /\ Returns(IF metrics_collector' THEN Accessors
               ELSE {"get_metrics_collector"})
    /\ IF metrics_collector'
       THEN /\ LifespanSends("sleep", NoReturn, "starting", "serving")
            /\ raised_with' = IF SendStart = "raised" THEN iam_token ELSE raised_with
       ELSE /\ lifespan' = "serving"
            /\ UNCHANGED <<pc, wake_at, metrics_to_send, current_time, tok, via,
                           snap_added, after_raise, raised_with, send_returned>>
    /\ UNCHANGED <<metrics_buffer, last_flush, iam_token, token_expires_at,
                   key_material, now, ticks, n_added, issued, delivered,
                   enabled, tracked, flush_sends>>

\* lifespan shutdown (usage example, lines 35-48): with a collector, the final
\* flush_metrics, then, when it has returned, task.cancel() and the
\* service.stopped metric.
LifespanShutdown ==
    /\ UNCHANGED wire
    /\ UNCHANGED accessors
    /\ lifespan = "serving"
    /\ IF metrics_collector
       THEN FlushBegin(FinalFlush)
       ELSE /\ lifespan' = "stopped"
            /\ UNCHANGED <<metrics_buffer, last_flush, pc, wake_at,
                           metrics_to_send, current_time, tok, via, snap_added,
                           after_raise, raised_with, flush_sends, send_returned,
                           waiting_since>>
    /\ UNCHANGED <<iam_token, token_expires_at, key_material, now, ticks,
                   n_added, issued, delivered, enabled, yc_monitoring,
                   metrics_collector, tracked>>

\* mutant: an empty list is not short-cut and the token cache is refreshed
SendEmpty_RefreshesToken ==
    /\ UNCHANGED wire
    /\ UNCHANGED accessors
    /\ UNCHANGED waiting_since
    /\ lifespan = "serving"
    /\ yc_monitoring
    /\ send_returned' = SendReturn("empty", "true")
    /\ iam_token' = 0
    /\ token_expires_at' = 0
    /\ UNCHANGED <<metrics_buffer, last_flush,
                   key_material, now, ticks, n_added, issued, delivered, pc,
                   metrics_to_send, current_time, tok, wake_at, via,
                   snap_added, after_raise, raised_with, enabled,
                   yc_monitoring, metrics_collector, lifespan, tracked,
                   flush_sends>>

\* Application code calls send_metrics with an empty list, which returns True
\* at once (lines 113-114).
SendEmpty ==
    /\ UNCHANGED wire
    /\ UNCHANGED accessors
    /\ UNCHANGED waiting_since
    /\ lifespan = "serving"
    /\ yc_monitoring
    /\ send_returned' = SendReturn("empty", "true")
    /\ UNCHANGED <<metrics_buffer, last_flush, iam_token, token_expires_at,
                   key_material, now, ticks, n_added, issued, delivered, pc,
                   metrics_to_send, current_time, tok, wake_at, via,
                   snap_added, after_raise, raised_with, enabled,
                   yc_monitoring, metrics_collector, lifespan, tracked,
                   flush_sends>>

\* The identity endpoint answers 200 (lines 98-103): the token and its
\* deadline are cached, then send_metrics POSTs the payload (119-153).
ExchangeOk(k) ==
    /\ UNCHANGED wire
    /\ UNCHANGED accessors
    /\ UNCHANGED waiting_since
    /\ Running
    /\ pc[k] = "exchange"
    /\ issued < MaxTokens
    /\ issued' = issued + 1
    /\ iam_token' = issued + 1
    /\ token_expires_at' = RefreshDeadline(current_time[k])
    /\ tok' = [tok EXCEPT ![k] = issued + 1]
    /\ via' = [via EXCEPT ![k] = "fresh"]
    /\ pc' = [pc EXCEPT ![k] = "upload"]
    /\ send_returned' = NoReturn
    /\ UNCHANGED <<metrics_buffer, last_flush, key_material, now, ticks,
                   n_added, delivered, metrics_to_send, current_time, wake_at,
                   snap_added, after_raise, raised_with, enabled,
                   yc_monitoring, metrics_collector, lifespan, tracked,
                   flush_sends>>

\* mutant: a failed exchange also forces the next call to refresh
ExchangeFail_ResetsDeadline(k) ==
    /\ UNCHANGED wire
    /\ UNCHANGED accessors
    /\ UNCHANGED waiting_since
    /\ Running
    /\ pc[k] = "exchange"
    /\ metrics_buffer' = IF FlushCaller(k)
                         THEN Requeue(metrics_buffer, metrics_to_send[k])
                         ELSE metrics_buffer
    /\ Returned(k, TokenFailed("exchange"))
    /\ raised_with' = iam_token
    /\ token_expires_at' = 0
    /\ UNCHANGED <<last_flush, iam_token, key_material, now,
                   ticks, n_added, issued, delivered, enabled, yc_monitoring,
                   metrics_collector, tracked, flush_sends>>

\* mutant: a failed exchange drops the cached token
ExchangeFail_ClearsToken(k) ==
    /\ UNCHANGED wire
    /\ UNCHANGED accessors
    /\ UNCHANGED waiting_since
    /\ Running
    /\ pc[k] = "exchange"
    /\ metrics_buffer' = IF FlushCaller(k)
                         THEN Requeue(metrics_buffer, metrics_to_send[k])
                         ELSE metrics_buffer
    /\ Returned(k, TokenFailed("exchange"))
    /\ raised_with' = iam_token
    /\ iam_token' = 0
    /\ UNCHANGED <<last_flush, token_expires_at, key_material, now,
                   ticks, n_added, issued, delivered, enabled, yc_monitoring,
                   metrics_collector, tracked, flush_sends>>

\* The exchange fails (non-200, transport error, timeout; lines 104-109):
\* _get_iam_token raises, send_metrics returns False (170-172) and
\* flush_metrics puts the batch back (275-278).
ExchangeFail(k) ==
    /\ UNCHANGED wire
    /\ UNCHANGED accessors
    /\ UNCHANGED waiting_since
    /\ Running
    /\ pc[k] = "exchange"
    /\ metrics_buffer' = IF FlushCaller(k)
                         THEN Requeue(metrics_buffer, metrics_to_send[k])
                         ELSE metrics_buffer
    /\ Returned(k, TokenFailed("exchange"))
    /\ raised_with' = iam_token
    /\ UNCHANGED <<last_flush, iam_token, token_expires_at, key_material, now,
                   ticks, n_added, issued, delivered, enabled, yc_monitoring,
                   metrics_collector, tracked, flush_sends>>

\* mutant: a 200 answer is reported as a failure
UploadOk_ReturnsFalse(k) ==
    /\ UNCHANGED wire
    /\ UNCHANGED accessors
    /\ UNCHANGED waiting_since
    /\ Running
    /\ pc[k] = "upload"
    /\ metrics_buffer' = IF FlushCaller(k)
                         THEN Requeue(metrics_buffer, metrics_to_send[k])
                         ELSE metrics_buffer
    /\ Returned(k, SendReturn("200", "false"))
    /\ UNCHANGED <<last_flush, iam_token, token_expires_at, key_material, now,
                   ticks, n_added, issued, delivered, raised_with, enabled,
                   yc_monitoring, metrics_collector, tracked, flush_sends>>

\* mutant: the batch is put back although send_metrics returned True
UploadOk_AlsoRequeues(k) ==
    /\ UNCHANGED wire
    /\ UNCHANGED accessors
    /\ UNCHANGED waiting_since
    /\ Running
    /\ pc[k] = "upload"
    /\ delivered' = delivered \cup (SeqToSet(metrics_to_send[k]) \ {ServiceMetric})
    /\ metrics_buffer' = IF FlushCaller(k)
                         THEN Requeue(metrics_buffer, metrics_to_send[k])
                         ELSE metrics_buffer
    /\ Returned(k, SendReturn("200", "true"))
    /\ UNCHANGED <<last_flush, iam_token, token_expires_at,
                   key_material, now, ticks, n_added, issued, raised_with,
                   enabled, yc_monitoring, metrics_collector, tracked,
                   flush_sends>>

\* The upload answers 200 (lines 155-161): send_metrics returns True.
UploadOk(k) ==
    /\ UNCHANGED wire
    /\ UNCHANGED accessors
    /\ UNCHANGED waiting_since
    /\ Running
    /\ pc[k] = "upload"
    /\ delivered' = delivered \cup (SeqToSet(metrics_to_send[k]) \ {ServiceMetric})
    /\ Returned(k, SendReturn("200", "true"))
    /\ UNCHANGED <<metrics_buffer, last_flush, iam_token, token_expires_at,
                   key_material, now, ticks, n_added, issued, raised_with,
                   enabled, yc_monitoring, metrics_collector, tracked,
                   flush_sends>>

\* mutant: a failed flush takes its time stamp back
UploadFail_ResetsLastFlush(k) ==
    /\ UNCHANGED wire
    /\ UNCHANGED accessors
    /\ UNCHANGED waiting_since
    /\ Running
    /\ pc[k] = "upload"
    /\ metrics_buffer' = IF FlushCaller(k)
                         THEN Requeue(metrics_buffer, metrics_to_send[k])
                         ELSE metrics_buffer
    /\ \E c \in UploadFailures : Returned(k, UploadFailed(c))
    /\ last_flush' = IF FlushCaller(k) THEN 0 ELSE last_flush
    /\ UNCHANGED <<iam_token, token_expires_at, key_material, now,
                   ticks, n_added, issued, delivered, raised_with, enabled,
                   yc_monitoring, metrics_collector, tracked, flush_sends>>

\* The upload fails (lines 162-172): send_metrics returns False and
\* flush_metrics puts the batch back (275-278).
UploadFail(k) ==
    /\ UNCHANGED wire
    /\ UNCHANGED accessors
    /\ UNCHANGED waiting_since
    /\ Running
    /\ pc[k] = "upload"
    /\ metrics_buffer' = IF FlushCaller(k)
                         THEN Requeue(metrics_buffer, metrics_to_send[k])
                         ELSE metrics_buffer
    /\ \E c \in UploadFailures : Returned(k, UploadFailed(c))
    /\ UNCHANGED <<last_flush, iam_token, token_expires_at, key_material, now,
                   ticks, n_added, issued, delivered, raised_with, enabled,
                   yc_monitoring, metrics_collector, tracked, flush_sends>>

\* time.time() moves on; no network call outlives a clock step.
Tick(d) ==
    /\ UNCHANGED wire
    /\ UNCHANGED accessors
    /\ UNCHANGED waiting_since
    /\ Running
    /\ lifespan # "init"
    /\ ticks < MaxTicks
    /\ \A k \in Tasks : ~InFlight(k)
    /\ now' = now + d
    /\ ticks' = ticks + 1
    /\ send_returned' = NoReturn
    /\ UNCHANGED <<metrics_buffer, last_flush, iam_token, token_expires_at,
                   key_material, n_added, issued, delivered, pc,
                   metrics_to_send, current_time, tok, wake_at, via,
                   snap_added, after_raise, raised_with, enabled,
                   yc_monitoring, metrics_collector, lifespan, tracked,
                   flush_sends>>

Next ==
    \/ LifespanStartup
    \/ Track
    \/ \E k \in FlushTasks : FlushTaskRun(k)
    \/ SchedulerWake
    \/ SendEmpty
    \/ \E k \in Tasks : ExchangeOk(k)
    \/ \E k \in Tasks : ExchangeFail(k)
    \/ \E k \in Tasks : UploadOk(k)
    \/ \E k \in Tasks : UploadFail(k)
    \/ \E d \in ClockSteps : Tick(d)
    \/ LifespanShutdown

Spec == Init /\ [][Next]_vars

\* The event loop's scheduling: a created task gets to run, a sleep that has
\* ended returns, every POST is answered or times out (lines 92 and 147), and
\* the clock moves on.
FairSpec ==
    /\ Spec
    /\ WF_vars(SchedulerWake)
    /\ \A k \in FlushTasks : WF_vars(FlushTaskRun(k))
    /\ \A k \in Tasks : WF_vars(ExchangeOk(k) \/ ExchangeFail(k))
    /\ \A k \in Tasks : WF_vars(UploadOk(k) \/ UploadFail(k))
    /\ WF_vars(\E d \in ClockSteps : Tick(d))

\* ------------------------------------------ the pipeline run on time

MaxTimedTicks == 6     \* clock steps in a run on time

\* the clock step of a run on time: half a flush interval, so that a flush
\* can fall between two wake-ups of the scheduler
HalfInterval == flush_interval \div 2

\* time.time() moves on by half an interval, with the event loop on time: no
\* network call is pending (sends take no time to speak of), every created
\* task has run, and the scheduler's sleep (line 283) has not yet ended or
\* ends exactly now.
TimedTick ==
    /\ Running
    /\ lifespan # "init"
    /\ ticks < MaxTimedTicks
    /\ \A k \in Tasks : ~InFlight(k) /\ pc[k] # "spawned"
    /\ pc[Scheduler] = "sleep" => now + HalfInterval <= wake_at
    /\ now' = now + HalfInterval
    /\ ticks' = ticks + 1
    /\ send_returned' = NoReturn
    /\ UNCHANGED wire
    /\ UNCHANGED accessors
    /\ UNCHANGED <<metrics_buffer, last_flush, iam_token, token_expires_at,
                   key_material, n_added, issued, delivered, pc,
                   metrics_to_send, current_time, tok, wake_at, via,
                   snap_added, after_raise, raised_with, enabled,
                   yc_monitoring, metrics_collector, lifespan, tracked,
                   flush_sends, waiting_since>>

TimedNext ==
    \/ LifespanStartup
    \/ Track
    \/ \E k \in FlushTasks : FlushTaskRun(k)
    \/ SchedulerWake
    \/ SendEmpty
    \/ \E k \in Tasks : ExchangeOk(k)
    \/ \E k \in Tasks : ExchangeFail(k)
    \/ \E k \in Tasks : UploadOk(k)
    \/ \E k \in Tasks : UploadFail(k)
    \/ TimedTick
    \/ LifespanShutdown

TimedSpec == Init /\ [][TimedNext]_vars

\* ------------------------------------- send_metrics building the body

\* An instance is serving requests, and application code (usage example,
\* line 171) is about to call send_metrics with a batch of its own.
PayloadInit ==
    /\ metrics_buffer = <<>>
    /\ last_flush = 0
    /\ iam_token = 0
    /\ token_expires_at = 0
    /\ key_material = "ok"
    /\ now = 0
    /\ ticks = 0
    /\ n_added = 0
    /\ issued = 0
    /\ delivered = {}
    /\ pc = [k \in Tasks |-> "idle"]
    /\ metrics_to_send = [k \in Tasks |-> <<>>]
    /\ current_time = [k \in Tasks |-> 0]
    /\ tok = [k \in Tasks |-> 0]
    /\ wake_at = 0
    /\ via = [k \in Tasks |-> "none"]
    /\ snap_added = [k \in Tasks |-> 0]
    /\ after_raise = [k \in Tasks |-> FALSE]
    /\ raised_with = -1
    /\ enabled = TRUE
    /\ yc_monitoring = TRUE
    /\ metrics_collector = FALSE
    /\ lifespan = "serving"
    /\ tracked = 0
    /\ flush_sends = 0
    /\ send_returned = NoReturn
    /\ waiting_since = -1
    /\ metrics \in Batches
    /\ payload = NoPayload
    /\ base_labels = InitialBaseLabels
    /\ sent_before = NoPayload
    /\ instances = [yc |-> 1, mc |-> 0]
    /\ got = [fn \in Accessors |->
                 IF fn = "get_yc_monitoring" THEN [flag |-> TRUE, value |-> 1]
                 ELSE NeverCalled]

\* mutant: the merged labels are written into base_labels
BuildPayload_UpdatesBaseLabels ==
    /\ yc_monitoring
    /\ sent_before = NoPayload
    /\ sent_before' = payload
    /\ payload' = Payload(base_labels, metrics)
    /\ base_labels' = CombinedLabels(base_labels, metrics[Len(metrics)].labels)
    /\ UNCHANGED metrics
    /\ UNCHANGED pipeline

\* send_metrics builds the upload body for its argument (lines 119-135); it
\* is called once, and once more with the same metrics, as flush_metrics
\* does with a batch it put back (lines 269-278).
BuildPayload ==
    /\ yc_monitoring
    /\ sent_before = NoPayload
    /\ sent_before' = payload
    /\ payload' = Payload(base_labels, metrics)
    /\ UNCHANGED <<metrics, base_labels>>
    /\ UNCHANGED pipeline

PayloadNext == BuildPayload

PayloadSpec == PayloadInit /\ [][PayloadNext]_vars

\* ------------------------------------------------- steps the claims name

\* The lifespan calls send_single_metric in this step: at startup, or at
\* shutdown when the final flush has returned.
ServiceSendCall ==
    \/ LifespanStartup /\ metrics_collector'
    \/ /\ lifespan \in {"serving", "draining"}
       /\ lifespan' \in {"stopping", "stopped"}
       /\ metrics_collector

\* Task k calls send_metrics, and so _get_iam_token, in this step: its
\* flush_metrics starts with a non-empty buffer, or it is the lifespan's
\* send_single_metric.
GetTokenCall(k) ==
    \/ /\ metrics_buffer # <<>>
       /\ \/ FlushTaskRun(k)
          \/ k = Scheduler /\ FlushDue(now, last_flush) /\ SchedulerWake
          \/ k = FinalFlush /\ metrics_collector /\ LifespanShutdown
    \/ k = Service /\ ServiceSendCall

\* Task k's send_metrics call, made before or in this step, returns in it: k
\* is not left in a network call.  (A cancelled task's call does not return:
\* it gets CancelledError.)
SendEnds(k) == ~InFlight(k)' /\ pc'[k] # "cancelled"

\* _get_iam_token raises in this step of task k: its exchange ends, or its
\* call ends at once, and no upload follows.  (A cancelled task's call gets
\* CancelledError instead.)
GetTokenRaises(k) ==
    /\ pc[k] = "exchange" \/ GetTokenCall(k)
    /\ SendEnds(k)

\* send_metrics returns False to task k's flush_metrics in this step: the
\* token call raises, or the upload ends and nothing was exported.
SendFails(k) ==
    /\ FlushCaller(k)
    /\ \/ GetTokenRaises(k)
       \/ pc[k] = "upload" /\ SendEnds(k) /\ delivered' = delivered

\* The batch task k's flush_metrics holds, or takes in this step.
BatchOf(k) == IF InFlight(k) THEN metrics_to_send[k] ELSE metrics_buffer

IsPrefix(p, s) == Len(p) <= Len(s) /\ SubSeq(s, 1, Len(p)) = p

Increasing(s) == \A i, j \in 1..Len(s) : i < j => s[i] < s[j]

Occurrences(s, m) == Cardinality({i \in 1..Len(s) : s[i] = m})

\* ------------------------------------------------------------------ claims

\* C1: whenever send_metrics returns False to a flush, the batch it was given
\* is, when flush_metrics returns, at the front of the buffer in its original
\* order, ahead of every metric added while the send was in flight.
C1_FailedBatchBackAtFront ==
    [][\A k \in Tasks : SendFails(k) => IsPrefix(BatchOf(k), metrics_buffer')]_vars

\* C2: every batch handed to the exporter is in the order its metrics were
\* added: a batch that failed before is sent again ahead of, or at the head of
\* the batch containing, any metric added after it.
C2_BatchesInAddOrder ==
    \A k \in Tasks : InFlight(k) => Increasing(metrics_to_send[k])

\* C3: the batches in flight at the same time are pairwise disjoint, and none
\* of their metrics is still in the buffer: each flush took its batch out of
\* the buffer before its send started.
C3_InFlightBatchesDisjoint ==
    \A k \in Tasks : InFlight(k) =>
        /\ SeqToSet(metrics_to_send[k]) \cap SeqToSet(metrics_buffer) = {}
        /\ \A j \in Tasks \ {k} : InFlight(j) =>
               SeqToSet(metrics_to_send[k]) \cap SeqToSet(metrics_to_send[j]) = {}

\* C3 witness: the scheduler's flush and a size-triggered flush are in flight
\* together, each with a batch.
C3_TimerAndSizeFlushInFlight ==
    /\ InFlight(Scheduler) /\ metrics_to_send[Scheduler] # <<>>
    /\ \E k \in FlushTasks : InFlight(k) /\ metrics_to_send[k] # <<>>

\* C4: when a flush's send completes, with either outcome, every metric added
\* since that flush copied its batch is outside the batch and is still in the
\* buffer, unless another flush has taken it into its own batch (in flight or
\* exported since).
C4_AddedDuringSendKept ==
    [][\A k \in Tasks : (InFlight(k) /\ ~InFlight(k)') =>
          \A m \in (snap_added[k] + 1)..n_added :
              /\ m \notin SeqToSet(metrics_to_send[k])
              /\ \/ m \in SeqToSet(metrics_buffer')
                 \/ \E j \in Tasks \ {k} : m \in SeqToSet(metrics_to_send'[j])
                 \/ m \in delivered']_vars

\* C4 witness: a send has failed after a metric was added during its flight;
\* that metric is in the buffer, with the returned batch behind it.
C4_AddedDuringFailedSendInBuffer ==
    \E i, j \in 1..Len(metrics_buffer) : i < j /\ metrics_buffer[i] > metrics_buffer[j]

\* C5: callers of _get_iam_token that overlap while no usable token is cached
\* share one token exchange: no two exchanges are in flight at the same time.
C5_SingleFlightExchange ==
    Cardinality({k \in Tasks : pc[k] = "exchange"}) <= 1

\* C6 as stated: a _get_iam_token call makes a token exchange if and only if
\* no token is cached or now >= _token_expires_at (the deadline expiresAt -
\* refreshMargin); with a token cached and now before the deadline it returns
\* the cached token with no exchange.
C6_ExchangeIffNoUsableToken ==
    [][\A k \in Tasks : GetTokenCall(k) =>
          /\ pc'[k] = "exchange" <=> (iam_token = 0 \/ now >= token_expires_at)
          /\ (iam_token # 0 /\ now < token_expires_at) =>
                (pc'[k] = "upload" /\ tok'[k] = iam_token /\ issued' = issued)]_vars

\* C6 amended: a _get_iam_token call makes a token exchange if and only if no
\* token is cached or now >= _token_expires_at, and the key material is
\* configured and readable (without it the call raises and makes no exchange);
\* it returns the cached token, with no exchange, if and only if a token is
\* cached and now < _token_expires_at.
C6_ExchangeIffDueAndKeyReadable ==
    [][\A k \in Tasks : GetTokenCall(k) =>
          /\ pc'[k] = "exchange" <=> /\ iam_token = 0 \/ now >= token_expires_at
                                     /\ key_material = "ok"
          /\ (iam_token # 0 /\ now < token_expires_at)
                <=> (pc'[k] = "upload" /\ via'[k] = "cached")
          /\ pc'[k] = "upload" => (tok'[k] = iam_token /\ issued' = issued)
          /\ ((iam_token = 0 \/ now >= token_expires_at) /\ key_material # "ok")
                => (~InFlight(k)' /\ issued' = issued)]_vars

\* C6 witness: a token is cached, its deadline has passed, and a caller is in
\* a new exchange.
C6_RefreshAtDeadline ==
    \E k \in Tasks : /\ pc[k] = "exchange"
                     /\ iam_token # 0
                     /\ current_time[k] >= token_expires_at

\* C7: every token _get_iam_token returns is the cached one and is not yet
\* due (now < _token_expires_at) at the moment it is returned.
C7_ReturnedTokenNotDue ==
    [][\A k \in Tasks : (tok[k] = 0 /\ tok'[k] # 0) =>
          /\ tok'[k] = iam_token'
          /\ now' < token_expires_at']_vars

\* C7 witness: after a raise and a clock step, a caller was given the cached
\* token.
C7_CachedTokenAfterRaiseAndTick ==
    \E k \in Tasks : /\ via[k] = "cached"
                     /\ raised_with # -1
                     /\ now > 0
                     /\ tok[k] = iam_token

\* C8: a _get_iam_token call that raises (failed exchange, missing or
\* unreadable key material) gives its caller no token, so that no upload is
\* made, and leaves _iam_token and _token_expires_at as they were.
C8_FailedExchangeLeavesCache ==
    [][\A k \in Tasks : GetTokenRaises(k) =>
          /\ iam_token' = iam_token
          /\ token_expires_at' = token_expires_at
          /\ tok'[k] = 0
          /\ pc'[k] # "upload"]_vars

\* C8 witness: an exchange has failed while a token was cached, and that
\* token and a deadline are still cached.
C8_RaisedWithTokenCached ==
    /\ raised_with >= 1
    /\ iam_token = raised_with
    /\ token_expires_at > 0

\* C9 as stated: once an exchange has failed with a token cached, a caller whose
\* own exchange fails before the token expires is still given that token.
C9_StaleTokenReturnedOnFailure ==
    [][\A k \in Tasks :
          ( /\ pc[k] = "exchange" /\ pc'[k] # "exchange"
            /\ raised_with = iam_token /\ iam_token # 0
            /\ now < TokenExpiry(token_expires_at)
            /\ issued' = issued )
          => tok'[k] = iam_token]_vars

\* C9 amended: a token cached when an exchange failed stays cached; callers
\* before its deadline _token_expires_at are given it without an exchange;
\* a caller at or after the deadline goes for an exchange and, when that
\* fails, is given no token even though the token has not expired.
C9_CachedTokenServesUntilDeadline ==
    [][\A k \in Tasks :
          /\ (GetTokenCall(k) /\ raised_with >= 1) =>
                /\ iam_token >= raised_with
                /\ now < token_expires_at =>
                      (pc'[k] = "upload" /\ tok'[k] = iam_token /\ issued' = issued)
                /\ now >= token_expires_at => pc'[k] # "upload"
          /\ (pc[k] = "exchange" /\ pc'[k] # "exchange" /\ issued' = issued) =>
                (tok'[k] = 0 /\ ~InFlight(k)')]_vars

\* C9 witness: a caller that came after a failed exchange was given the token
\* that was cached when the exchange failed.
C9_CachedTokenGivenAfterRaise ==
    \E k \in Tasks : /\ via[k] = "cached"
                     /\ after_raise[k]
                     /\ tok[k] = raised_with

\* The places metric m is in: buffer positions, positions in the batches of
\* the flushes in flight, and the exported set.
Places(m) ==
    Occurrences(metrics_buffer, m)
    + Cardinality({ki \in Tasks \X (1..MaxMetrics) :
                      /\ ki[2] <= Len(metrics_to_send[ki[1]])
                      /\ metrics_to_send[ki[1]][ki[2]] = m})
    + (IF m \in delivered THEN 1 ELSE 0)

\* C10: every metric add_metric accepted is in exactly one place: in the
\* buffer, in the batch of one flush in flight, or exported by a send that
\* returned True.
C10_NoMetricLost ==
    \A m \in 1..n_added : Places(m) = 1

\* C10 witness: metrics are in all three places at once, after a send failed
\* (its token call raised) and its batch went back into the buffer.
C10_BufferedInFlightAndExported ==
    /\ delivered # {}
    /\ \E k \in Tasks : InFlight(k)
    /\ metrics_buffer # <<>>
    /\ raised_with # -1

\* C11: cancelling the scheduler's task drops no metric: once it is cancelled,
\* every metric add_metric accepted is exported, in the buffer, or in the
\* batch of a flush (the final flush or a created task's) still in flight.
C11_CancelDropsNothing ==
    pc[Scheduler] = "cancelled" => \A m \in 1..n_added : Places(m) >= 1

\* C12: a shutdown that finds the buffer non-empty makes one final flush, whose
\* batch is the whole buffer; that flush runs once and has returned before
\* the service.stopped metric is sent, and from then on the scheduler's task
\* is cancelled and starts no flush.
C12_OneFinalFlushThenCancel ==
    /\ [][(lifespan = "serving" /\ lifespan' # "serving" /\ metrics_collector
              /\ metrics_buffer # <<>>) =>
            /\ flush_sends' = Counted(flush_sends)
            /\ IF InFlight(FinalFlush)'
               THEN /\ metrics_to_send'[FinalFlush] = metrics_buffer
                    /\ metrics_buffer' = <<>>
                    /\ lifespan' = "draining"
               ELSE /\ send_returned'.value = "false"
                    /\ metrics_buffer' = metrics_buffer]_vars
    /\ [][(lifespan \in {"draining", "stopping", "stopped"}) =>
            /\ lifespan' \in {"draining", "stopping", "stopped"}
            /\ lifespan' = "draining" => lifespan = "draining"
            /\ InFlight(FinalFlush)' =>
                  metrics_to_send'[FinalFlush] = metrics_to_send[FinalFlush]
            /\ pc[Scheduler] = "cancelled" =>
                  (pc'[Scheduler] = "cancelled" /\ metrics_to_send'[Scheduler] = <<>>)]_vars
    /\ [](lifespan \in {"stopping", "stopped"} /\ metrics_collector =>
            /\ pc[FinalFlush] = "idle"
            /\ metrics_to_send[FinalFlush] = <<>>
            /\ pc[Scheduler] = "cancelled")

\* C12 witness: the final flush was the only flush of the run, its send has
\* just returned True with the metrics it took, the scheduler is cancelled and
\* the service.stopped metric is on its way.
C12_FinalFlushExported ==
    /\ lifespan = "stopping"
    /\ flush_sends = 1
    /\ send_returned = SendReturn("200", "true")
    /\ delivered = 1..n_added /\ n_added > 0
    /\ pc[Scheduler] = "cancelled"

\* The first n metrics in the order add_metric accepted them.
FirstMetrics(n) == [i \in 1..n |-> i]

\* The flush tasks add_metric creates in this step.
Created == {k \in FlushTasks : pc[k] # "spawned" /\ pc'[k] = "spawned"}

\* The flush task k created by add_metric gets to run in this step.
Runs(k) == k \in FlushTasks /\ pc[k] = "spawned" /\ pc'[k] # "spawned"

\* C13: from an empty buffer, after n < buffer_size add_metric calls and no
\* flush that took metrics, the buffer holds the n metrics in the order they
\* were added and add_metric has created no flush task.
C13_BelowCapacityNoFlush ==
    (n_added < buffer_size /\ flush_sends = 0) =>
        /\ metrics_buffer = FirstMetrics(n_added)
        /\ \A k \in FlushTasks : pc[k] = "idle"

\* C13 witness: one metric short of buffer_size, after a clock step (the
\* scheduler had nothing to send or has not woken), nothing was flushed.
C13_AlmostFullAfterTick ==
    /\ n_added = buffer_size - 1
    /\ Len(metrics_buffer) = n_added
    /\ flush_sends = 0
    /\ now > 0
    /\ lifespan = "serving"

\* C14: from an empty buffer, the add_metric call that brings the buffer to
\* buffer_size creates exactly one flush task; when that task runs it makes
\* one send_metrics call with the whole buffer, and while that call is in
\* the network the buffer is empty.
C14_CapacityAddTriggersOneFlush ==
    /\ [][(n_added' = n_added + 1 /\ n_added' = buffer_size /\ flush_sends = 0) =>
            /\ Cardinality(Created) = 1
            /\ Len(metrics_buffer') = buffer_size
            /\ flush_sends' = 0]_vars
    /\ [][\A k \in FlushTasks :
            (Runs(k) /\ flush_sends = 0 /\ n_added = buffer_size) =>
                /\ flush_sends' = 1
                /\ InFlight(k)' =>
                      /\ metrics_to_send'[k] = metrics_buffer
                      /\ Len(metrics_to_send'[k]) = buffer_size
                      /\ metrics_buffer' = <<>>
                      /\ \A j \in Tasks \ {k} : ~InFlight(j)'
                /\ ~InFlight(k)' => send_returned'.value = "false"]_vars

\* C14 witness: the flush created by the buffer_size-th add is in the network
\* with all buffer_size metrics, it is the only send so far, and the buffer
\* is empty.
C14_FirstFlushInFlight ==
    \E k \in FlushTasks :
        /\ InFlight(k)
        /\ Len(metrics_to_send[k]) = buffer_size
        /\ metrics_buffer = <<>>
        /\ flush_sends = 1
        /\ n_added = buffer_size

\* C15: the flush created by the buffer_size-th add (add A, add B with
\* buffer_size = 2) hands send_metrics exactly the first buffer_size metrics
\* in order; when the upload answers 200 the buffer stays empty; the next add
\* then leaves just its metric in the buffer and creates no flush.
C15_FullBatchSentThenNextAddBuffered ==
    /\ [][\A k \in FlushTasks :
            (Runs(k) /\ flush_sends = 0 /\ n_added = buffer_size) =>
                /\ InFlight(k)' => metrics_to_send'[k] = FirstMetrics(buffer_size)
                /\ ~InFlight(k)' => metrics_buffer' = FirstMetrics(buffer_size)]_vars
    /\ [][\A k \in FlushTasks :
            ( /\ pc[k] = "upload" /\ pc'[k] # "upload"
              /\ send_returned'.cause = "200"
              /\ flush_sends = 1 /\ n_added = buffer_size ) =>
                /\ send_returned'.value = "true"
                /\ metrics_buffer' = <<>>
                /\ delivered' = 1..buffer_size]_vars
    /\ [][( /\ n_added = buffer_size /\ n_added' = n_added + 1
            /\ flush_sends = 1 /\ delivered = 1..buffer_size ) =>
                /\ metrics_buffer' = <<n_added + 1>>
                /\ Created = {}
                /\ flush_sends' = 1]_vars

\* C15 witness: the first buffer_size metrics were exported by the one flush
\* made, and the next metric sits alone in the buffer with no flush task
\* created.
C15_NextMetricAloneInBuffer ==
    /\ flush_sends = 1
    /\ delivered = 1..buffer_size
    /\ metrics_buffer = <<buffer_size + 1>>
    /\ \A k \in FlushTasks : pc[k] = "idle"
    /\ lifespan = "serving"

\* C16: when the send of the flush created by the buffer_size-th add fails
\* (add A, add B with buffer_size = 2), the buffer is again the first
\* buffer_size metrics in order; the next add makes it one longer and creates
\* a flush, whose send_metrics call is handed all buffer_size + 1 metrics in
\* the order they were added.
C16_FailedBatchResentWithNextAdd ==
    /\ [][\A k \in FlushTasks :
            (SendFails(k) /\ flush_sends' = 1 /\ n_added = buffer_size) =>
                metrics_buffer' = FirstMetrics(buffer_size)]_vars
    /\ [][( /\ n_added = buffer_size /\ n_added' = n_added + 1
            /\ flush_sends = 1 /\ metrics_buffer = FirstMetrics(buffer_size) ) =>
                /\ metrics_buffer' = FirstMetrics(buffer_size + 1)
                /\ Cardinality(Created) = 1]_vars
    /\ [][\A k \in FlushTasks :
            ( /\ Runs(k) /\ flush_sends = 1
              /\ metrics_buffer = FirstMetrics(buffer_size + 1) ) =>
                /\ flush_sends' = 2
                /\ InFlight(k)' =>
                      /\ metrics_to_send'[k] = FirstMetrics(buffer_size + 1)
                      /\ metrics_buffer' = <<>>
                /\ ~InFlight(k)' =>
                      metrics_buffer' = FirstMetrics(buffer_size + 1)]_vars

\* C16 witness: the second send_metrics call of the run is in the network
\* with the first buffer_size + 1 metrics in order: the failed batch and the
\* metric added after it.
C16_ResendInFlight ==
    \E k \in FlushTasks :
        /\ InFlight(k)
        /\ metrics_to_send[k] = FirstMetrics(buffer_size + 1)
        /\ flush_sends = 2

\* C17: send_metrics never raises to its caller: an upload that fails (non-200
\* answer, transport error, timeout) makes it return False, and it returns
\* True for a non-empty batch only when the upload answered 200.  The flush
\* that called it goes on accordingly: the batch is exported, or put back.
C17_SendNeverRaises ==
    /\ [](/\ send_returned.value \in {"none", "true", "false"}
          /\ send_returned.cause \in UploadFailures => send_returned.value = "false"
          /\ send_returned.cause = "200" <=> send_returned.value = "true" /\ send_returned.cause # "empty")
    /\ [][\A k \in Tasks : (pc[k] = "upload" /\ SendEnds(k)) =>
            /\ send_returned'.cause \in UploadFailures \cup {"200"}
            /\ FlushCaller(k) =>
                  IF delivered' # delivered
                  THEN /\ delivered' = delivered \cup SeqToSet(metrics_to_send[k])
                       /\ metrics_buffer' = metrics_buffer
                  ELSE metrics_buffer' = metrics_buffer \o metrics_to_send[k]
            /\ pc'[k] = IF k = Scheduler THEN "sleep" ELSE "idle"]_vars

\* C17 witness: an upload has just timed out, send_metrics returned False and
\* the batch is back in the buffer.
C17_TimeoutReturnedFalse ==
    /\ send_returned = SendReturn("timeout", "false")
    /\ metrics_buffer # <<>>
    /\ iam_token # 0

\* C18: when _get_iam_token raises during a send (failed exchange, missing or
\* unreadable key material), send_metrics returns False, makes no upload,
\* and the flush that called it puts its batch back into the buffer.
C18_TokenFailureReturnsFalse ==
    [][\A k \in Tasks : GetTokenRaises(k) =>
          /\ send_returned'.value = "false"
          /\ send_returned'.cause \in {"key", "exchange"}
          /\ pc'[k] # "upload" /\ tok'[k] = 0
          /\ delivered' = delivered
          /\ FlushCaller(k) =>
                /\ \A m \in SeqToSet(BatchOf(k)) : m \in SeqToSet(metrics_buffer')
                /\ Len(metrics_buffer') >= Len(BatchOf(k))]_vars

\* C18 witness: a token exchange has just failed; send_metrics returned False
\* and the batch is in the buffer, with no upload under way.
C18_ExchangeFailedBatchBack ==
    /\ send_returned = SendReturn("exchange", "false")
    /\ metrics_buffer # <<>>
    /\ \A k \in Tasks : pc[k] # "upload"

\* C19: send_metrics called with an empty list returns True and does nothing
\* else: no upload, no token exchange, the token cache as it was.
C19_EmptySendIsNoOp ==
    [][send_returned'.cause = "empty" =>
          /\ send_returned'.value = "true"
          /\ UNCHANGED <<iam_token, token_expires_at, issued, pc, tok,
                         metrics_to_send, metrics_buffer, delivered,
                         flush_sends, raised_with>>]_vars

\* C19 witness: an empty send has just returned True while a token is cached
\* and a flush is in the network.
C19_EmptySendWithTokenCached ==
    /\ send_returned = SendReturn("empty", "true")
    /\ iam_token # 0
    /\ \E k \in Tasks : InFlight(k)

\* C20: with YC_MONITORING_ENABLED off, producer calls never reach add_metric,
\* send_metrics or the token exchange: nothing is buffered, no instance is
\* created, no task runs and no network call is made.
C20_DisabledDoesNothing ==
    ~enabled =>
        /\ metrics_buffer = <<>> /\ n_added = 0
        /\ ~yc_monitoring /\ ~metrics_collector
        /\ flush_sends = 0 /\ issued = 0 /\ iam_token = 0
        /\ send_returned = NoReturn
        /\ \A k \in Tasks : pc[k] = "idle" /\ metrics_to_send[k] = <<>>

\* C20 witness: the flag is off and MaxMetrics producer calls have been made
\* by the time the application has shut down.
C20_DisabledAfterProducerCalls ==
    /\ ~enabled
    /\ tracked = MaxMetrics
    /\ lifespan = "stopped"

\* C21: send_single_metric is add_metric of the single-point metric it builds:
\* the call appends that metric to the buffer and makes no upload of its own,
\* so that the metric goes out with a flush and is put back when the send
\* fails.
C21_SingleMetricIsAdded ==
    /\ [][ServiceSendCall =>
            /\ ServiceMetric \in SeqToSet(metrics_buffer')
            /\ ~InFlight(Service)']_vars
    /\ [][(InFlight(Service) /\ ~InFlight(Service)' /\ delivered' = delivered) =>
            ServiceMetric \in SeqToSet(metrics_buffer')]_vars


\* Task k calls flush_metrics in this step: a created task gets to run, the
\* scheduler wakes with an interval passed, or the lifespan shuts down.
FlushCall(k) ==
    \/ FlushTaskRun(k)
    \/ k = Scheduler /\ SchedulerWake /\ FlushDue(now, last_flush)
    \/ k = FinalFlush /\ LifespanShutdown /\ metrics_collector

\* flush_metrics of task k copies a batch out of the buffer in this step
\* (lines 269-271).
TakesBatch(k) == FlushCall(k) /\ metrics_buffer # <<>>

\* The scheduler's flush_metrics is seen to take a batch in this step: its send
\* is in the network afterwards, or has returned at once.
SchedulerFlushes ==
    /\ SchedulerWake
    /\ InFlight(Scheduler)' \/ send_returned' # NoReturn

\* C22: the scheduler's flush takes a batch only when at least flush_interval
\* has passed since _last_flush, and _last_flush is the time at which the last
\* flush that found metrics (created by add_metric, the scheduler's or the
\* final one) copied its batch; so a timer flush never takes a batch less
\* than one interval after the previous batch was taken.
C22_TimerFlushOnlyAfterInterval ==
    /\ [][SchedulerFlushes => now - last_flush >= flush_interval]_vars
    /\ [][\A k \in Tasks : TakesBatch(k) => last_flush' = now]_vars
    /\ [][last_flush' # last_flush => \E k \in Tasks : TakesBatch(k)]_vars
    /\ [](last_flush <= now)

\* C22 witness: the scheduler's flush is in the network with a batch, as the
\* second flush of the run that found metrics.
C22_TimerFlushAfterEarlierFlush ==
    /\ InFlight(Scheduler)
    /\ metrics_to_send[Scheduler] # <<>>
    /\ flush_sends = 2


\* C23: the scheduler's task goes Running (asleep) -> Flushing -> Running, and
\* Running -> (cancellation requested) -> Draining -> Stopped: it is stopped
\* only from Running, never leaves Stopped, and the drain flush (the
\* lifespan's final flush_metrics) is made after its cancellation was
\* requested.
C23_SchedulerStateMachine ==
    /\ [][pc'[Scheduler] # pc[Scheduler] =>
            \/ pc[Scheduler] = "idle" /\ pc'[Scheduler] = "sleep"
            \/ pc[Scheduler] = "sleep" /\ InFlight(Scheduler)'
            \/ pc[Scheduler] = "exchange" /\ pc'[Scheduler] = "upload"
            \/ InFlight(Scheduler) /\ pc'[Scheduler] = "sleep"
            \/ pc[Scheduler] = "sleep" /\ pc'[Scheduler] = "cancelled"]_vars
    /\ [](InFlight(FinalFlush) => pc[Scheduler] = "cancelled")


\* C24: add_metric never waits for the network: the step in which a metric is
\* added starts no upload and no token exchange and ends none, takes no batch
\* out of the buffer, and when the buffer has reached buffer_size the flush is
\* a task of its own that has been created and has not yet run.
C24_AddStartsNoNetworkCall ==
    [][n_added' = n_added + 1 =>
          /\ metrics_buffer' = Append(metrics_buffer, n_added')
          /\ \A k \in Tasks : /\ InFlight(k)' <=> InFlight(k)
                              /\ metrics_to_send'[k] = metrics_to_send[k]
          /\ flush_sends' = flush_sends /\ issued' = issued
          /\ last_flush' = last_flush
          /\ send_returned' = NoReturn
          /\ lifespan' = lifespan
          /\ IF Len(metrics_buffer') >= buffer_size
             THEN \E k \in FlushTasks : Created = {k} /\ pc'[k] = "spawned"
             ELSE Created = {}]_vars

\* C24 witness: add_metric has returned with the buffer at buffer_size; the
\* flush task it created has not run yet and the metrics are still in the
\* buffer.
C24_CreatedFlushNotYetRun ==
    /\ Len(metrics_buffer) = buffer_size
    /\ n_added = buffer_size
    /\ \E k \in FlushTasks : pc[k] = "spawned"
    /\ flush_sends = 0


\* C25: the metrics kept for a retry are bounded by buffer_size: after any
\* sequence of add_metric calls, flushes and failed sends the buffer never
\* holds more than buffer_size metrics.
C25_BufferWithinCapacity ==
    Len(metrics_buffer) <= buffer_size


\* C26: flush_metrics on an empty buffer does nothing: no send_metrics call,
\* no upload or token exchange of that flush, and the buffer, _last_flush and
\* the token cache are as they were.
C26_EmptyFlushIsNoOp ==
    [][\A k \in Tasks : (FlushCall(k) /\ metrics_buffer = <<>>) =>
          /\ metrics_buffer' = <<>>
          /\ last_flush' = last_flush
          /\ iam_token' = iam_token /\ token_expires_at' = token_expires_at
          /\ issued' = issued
          /\ flush_sends' = flush_sends
          /\ delivered' = delivered
          /\ ~InFlight(k)' /\ metrics_to_send'[k] = <<>>
          /\ k # FinalFlush => send_returned' = NoReturn]_vars

\* C26 witness: the flush task created by the buffer_size-th add has run and
\* made no send: the scheduler had taken the whole buffer before it, and the
\* scheduler's send is the only one counted.
C26_CreatedFlushFoundNothing ==
    /\ n_added = buffer_size
    /\ \A k \in FlushTasks : pc[k] = "idle"
    /\ InFlight(Scheduler)
    /\ metrics_to_send[Scheduler] = FirstMetrics(buffer_size)
    /\ flush_sends = 1


\* Metric m is in the batch of a flush in flight.
InBatch(m) == \E k \in Tasks : m \in SeqToSet(metrics_to_send[k])

\* C27: a metric is handed to send_metrics again only after every earlier send
\* that held it returned False: it goes into a batch only out of the buffer,
\* it comes into the buffer only by add_metric or with the batch of a send
\* that has just returned False, and once a send that held it has returned
\* True it is neither in the buffer nor in any batch again.
C27_ResentOnlyAfterFailure ==
    /\ [](\A m \in delivered : m \notin SeqToSet(metrics_buffer) /\ ~InBatch(m))
    /\ [][\A m \in 1..n_added : (InBatch(m)' /\ ~InBatch(m)) =>
            /\ m \in SeqToSet(metrics_buffer)
            /\ m \notin delivered']_vars
    /\ [][\A m \in 1..n_added :
            (m \in SeqToSet(metrics_buffer') /\ m \notin SeqToSet(metrics_buffer)) =>
                /\ send_returned'.value = "false"
                /\ \E k \in Tasks : /\ FlushCaller(k)
                                    /\ InFlight(k) /\ SendEnds(k)
                                    /\ m \in SeqToSet(metrics_to_send[k])]_vars
    /\ [][\A m \in 1..n_added :
            (m \in delivered' /\ m \notin delivered) =>
                /\ send_returned' = SendReturn("200", "true")
                /\ InBatch(m) /\ ~InBatch(m)'
                /\ m \notin SeqToSet(metrics_buffer')]_vars

\* C27 witness: the only metric of the run was sent twice: the first send
\* returned False and put it back, the second has just returned True.
C27_ExportedOnSecondSend ==
    /\ n_added = 1
    /\ flush_sends = 2
    /\ delivered = {1}
    /\ send_returned = SendReturn("200", "true")


\* C28: in every metric of the upload body the labels are the base labels
\* (service, environment, version) together with the metric's own, and a key
\* that is in both carries the metric's own value.
C28_LabelsMergedMetricWins ==
    /\ DOMAIN base_labels = {"service", "environment", "version"}
    /\ \A i \in 1..Len(payload.metrics) :
          LET sent == payload.metrics[i].labels
              own == metrics[i].labels
          IN  /\ DOMAIN sent = DOMAIN base_labels \cup DOMAIN own
              /\ \A key \in DOMAIN own : sent[key] = own[key]
              /\ \A key \in DOMAIN base_labels \ DOMAIN own :
                    sent[key] = base_labels[key]

\* C28 witness: a body was built with a metric whose own service label
\* replaced the base one, next to the base environment and its own status.
C28_OwnServiceLabelSent ==
    \E i \in 1..Len(payload.metrics) :
        /\ payload.metrics[i].labels =
              [service |-> "property-service", environment |-> "development",
               version |-> "1.0.0", status |-> "healthy"]
        /\ metrics[i].labels = CallerLabels

\* C29: the upload body has one entry per metric of the batch, in the order
\* of the batch; in each entry ts and values are as long as the metric's
\* points, and ts[j] and values[j] are the timestamp and the value of the
\* j-th point.
C29_EntriesAndPointsInOrder ==
    payload # NoPayload =>
        /\ Len(payload.metrics) = Len(metrics)
        /\ \A i \in 1..Len(metrics) :
              LET entry == payload.metrics[i]
                  points == metrics[i].points
              IN  /\ entry.name = metrics[i].name
                  /\ entry.type = metrics[i].type
                  /\ DOMAIN entry.ts = 1..Len(points)
                  /\ DOMAIN entry.values = 1..Len(points)
                  /\ \A j \in 1..Len(points) :
                        /\ entry.ts[j] = points[j].timestamp
                        /\ entry.values[j] = points[j].value

\* C29 witness: a body of MaxBatch entries was built, the first with two
\* points whose values fall while their timestamps rise, the last with another
\* name.
C29_TwoPointMetricSent ==
    /\ Len(payload.metrics) = MaxBatch
    /\ payload.metrics[1].ts = <<1700000000, 1700000060>>
    /\ payload.metrics[1].values = <<2, 1>>
    /\ payload.metrics[MaxBatch].name # payload.metrics[1].name


\* C30: no failure of the upload or of the token call ends the scheduler's
\* task: when its send has failed flush_metrics returns and the task is asleep
\* again for another flush_interval, with the batch back in the buffer for the
\* next attempt; the task ends only when the lifespan cancels it.
C30_FailuresLeaveSchedulerRunning ==
    /\ [][SendFails(Scheduler) =>
            /\ pc'[Scheduler] = "sleep"
            /\ wake_at' = now + flush_interval
            /\ send_returned'.value = "false"
            /\ IsPrefix(metrics_buffer, metrics_buffer')
            /\ \A m \in SeqToSet(BatchOf(Scheduler)) : m \in SeqToSet(metrics_buffer')]_vars
    /\ [][(pc[Scheduler] # "cancelled" /\ pc'[Scheduler] = "cancelled") =>
            /\ lifespan \in {"serving", "draining"}
            /\ lifespan' \in {"stopping", "stopped"}]_vars
    /\ [](lifespan \in {"starting", "serving", "draining"} /\ metrics_collector
             => pc[Scheduler] \in {"sleep", "exchange", "upload"})

\* C30 witness: the scheduler's flush has failed once (its batch went back)
\* and the scheduler is in the network again with that batch, as the second
\* flush of the run.
C30_SchedulerFlushesAgainAfterFailure ==
    /\ InFlight(Scheduler)
    /\ metrics_to_send[Scheduler] = FirstMetrics(1)
    /\ n_added = 1
    /\ flush_sends = 2
    /\ lifespan = "serving"


\* A send has just returned False, or the scheduler's task has been cancelled.
SendFailedOrCancelled ==
    send_returned.value = "false" \/ pc[Scheduler] = "cancelled"

\* C31: with the scheduler running and the event loop fair, a metric in the
\* buffer while the clock can still move is eventually in a send that returns
\* True, unless a send fails or the scheduler is cancelled first; and when no
\* producer call is left the buffer is eventually empty for good, with the
\* same proviso.
C31_BufferedMetricEventuallyExported ==
    /\ \A m \in 1..MaxMetrics :
          (m \in SeqToSet(metrics_buffer) /\ ticks < MaxTicks)
              ~> (m \in delivered \/ SendFailedOrCancelled)
    /\ (tracked = MaxMetrics /\ ticks < MaxTicks)
          ~> ([](metrics_buffer = <<>>) \/ SendFailedOrCancelled)

\* C31 witness: the one metric of the run, too few for a created flush, was
\* taken by the scheduler's flush after a clock step and its send has just
\* returned True.
C31_TimerFlushExported ==
    /\ n_added = 1
    /\ delivered = {1}
    /\ flush_sends = 1
    /\ send_returned = SendReturn("200", "true")
    /\ lifespan = "serving"
    /\ pc[Scheduler] = "sleep"


\* C32: with the event loop on time and the scheduler's task running, a
\* metric added at time t has been taken by a flush (created by add_metric,
\* the scheduler's or the final one) by t + 2 * flush_interval: no buffered
\* metric that no flush has taken is older than that, also when a flush just
\* before a wake-up made the scheduler skip it.
C32_FlushedWithinTwoIntervals ==
    (waiting_since # -1 /\ pc[Scheduler] \in {"sleep", "exchange", "upload"}) =>
        /\ now - waiting_since <= 2 * flush_interval
        /\ waiting_since >= last_flush

\* C32 witness: a flush took a batch between two wake-ups, a metric added
\* after it has seen the scheduler skip a wake-up and has waited more than one
\* interval; the scheduler's sleep ends now.
C32_WaitedThroughSkippedWakeUp ==
    /\ waiting_since # -1
    /\ now - waiting_since > flush_interval
    /\ last_flush > 0
    /\ pc[Scheduler] = "sleep" /\ wake_at = now
    /\ now - last_flush >= flush_interval


\* C33: the batch of every flush is the whole buffer as flush_metrics found
\* it, never a prefix of buffer_size metrics: the buffer is empty once the
\* batch is copied, and a send that returns False at once gets the whole
\* buffer back; after failed sends one batch can hold more than buffer_size
\* metrics.
C33_BatchIsWholeBuffer ==
    [][\A k \in Tasks : TakesBatch(k) =>
          IF InFlight(k)'
          THEN /\ metrics_to_send'[k] = metrics_buffer
               /\ metrics_buffer' = <<>>
          ELSE /\ metrics_buffer' = metrics_buffer
               /\ send_returned'.value = "false"]_vars

\* C33 witness: a batch of more than buffer_size metrics is in the network
\* and the buffer is empty.
C33_BatchAboveCapacityInFlight ==
    \E k \in Tasks :
        /\ InFlight(k)
        /\ Len(metrics_to_send[k]) > buffer_size
        /\ metrics_buffer = <<>>


\* C34: while the buffer holds buffer_size metrics or more (a failed flush
\* put its batch back), every further add_metric call creates one more flush
\* task; such a task, run on a non-empty buffer, calls send_metrics with all
\* of it; a failed send leaves its whole batch in the buffer, and the buffer
\* gets shorter only when a flush takes all of it: a batch sent after a
\* failure is never smaller than the failed one.
C34_EveryAddAtCapacityFlushesAgain ==
    [][/\ (n_added' = n_added + 1 /\ Len(metrics_buffer) >= buffer_size) =>
              Cardinality(Created) = 1
       /\ \A k \in FlushTasks : (Runs(k) /\ metrics_buffer # <<>>) =>
              /\ flush_sends' > flush_sends \/ flush_sends = MaxCounted
              /\ InFlight(k)' => metrics_to_send'[k] = metrics_buffer
       /\ \A k \in Tasks : SendFails(k) =>
              /\ Len(metrics_buffer') >= Len(BatchOf(k))
              /\ SeqToSet(BatchOf(k)) \subseteq SeqToSet(metrics_buffer')
       /\ Len(metrics_buffer') < Len(metrics_buffer) =>
              /\ metrics_buffer' = <<>>
              /\ \E k \in Tasks : TakesBatch(k) /\ InFlight(k)']_vars

\* C34 witness: a second flush has failed and everything added so far, more
\* than buffer_size metrics, is back in the buffer.
C34_SecondFailureLeftLargerBuffer ==
    /\ send_returned.value = "false"
    /\ flush_sends >= 2
    /\ delivered = {}
    /\ Len(metrics_buffer) = n_added
    /\ n_added > buffer_size


\* The case of C35: buffer_size + 1 metrics were added and both the last two
\* add_metric calls created a flush task; one of the two has run, as the
\* only non-empty flush so far, nothing was added since, and task k is the
\* other one, running now.  Either the first one's send_metrics call is
\* still in the network with all the metrics, or it returned False in the
\* step just taken because the token call raised at once.
FirstIsInFlight(k) ==
    \E j \in FlushTasks \ {k} :
        /\ InFlight(j)
        /\ metrics_to_send[j] = FirstMetrics(n_added)

FirstFailedAtOnce(k) ==
    /\ send_returned = TokenFailed("key")
    /\ \A j \in FlushTasks \ {k} : pc[j] = "idle"
    /\ metrics_buffer = FirstMetrics(n_added)

SecondOfTwoRuns(k) ==
    /\ Runs(k)
    /\ lifespan = "serving"
    /\ n_added = buffer_size + 1
    /\ flush_sends = 1
    /\ FirstIsInFlight(k) \/ FirstFailedAtOnce(k)

\* C35 as stated: of the flush tasks created by add_metric calls that found
\* the buffer full, only the first to run calls send_metrics; the next one
\* finds the buffer empty and makes no call, when nothing was added in
\* between.
C35_OnlyFirstCreatedFlushSends ==
    [][\A k \in FlushTasks : SecondOfTwoRuns(k) =>
          /\ metrics_buffer = <<>>
          /\ flush_sends' = flush_sends
          /\ ~InFlight(k)']_vars

\* C35, amended: every add_metric call that finds the buffer full creates one
\* flush task, also while another one waits to run.  When the first one's
\* send_metrics call is suspended in the network, the next one finds the
\* buffer empty and makes no call; when the first one's call returned False
\* at once (the token call raised on the key), its batch is back in the
\* buffer and the next one calls send_metrics with all of it again.
C35_NextFlushSendsAgainAfterKeyFailure ==
    [][/\ (n_added' = n_added + 1 /\ BufferFull(metrics_buffer')) =>
              Cardinality(Created) = 1
       /\ \A k \in FlushTasks : SecondOfTwoRuns(k) =>
              IF FirstIsInFlight(k)
              THEN /\ metrics_buffer = <<>>
                   /\ flush_sends' = flush_sends
                   /\ ~InFlight(k)'
                   /\ send_returned' = NoReturn
              ELSE /\ key_material # "ok"
                   /\ flush_sends' = flush_sends + 1
                   /\ metrics_buffer' = FirstMetrics(n_added)
                   /\ send_returned' = TokenFailed("key")]_vars

\* C35 witness: both created flush tasks have run, one send_metrics call was
\* made, and it carries all the metrics.
C35_SecondCreatedFlushFoundNothing ==
    /\ n_added = buffer_size + 1
    /\ flush_sends = 1
    /\ \A k \in FlushTasks : pc[k] # "spawned"
    /\ \E j \in FlushTasks :
           /\ InFlight(j)
           /\ metrics_to_send[j] = FirstMetrics(n_added)


\* C36: _last_flush is set to time.time() by every flush_metrics call that
\* finds the buffer non-empty, when it copies the batch and before the send;
\* nothing else changes it (no add_metric call, no flush of an empty buffer,
\* no end of a send, whatever it returns), and it never decreases.
C36_LastFlushStampedOnlyAtSnapshot ==
    /\ [](\A k \in Tasks : (InFlight(k) /\ FlushCaller(k)) =>
              /\ last_flush >= current_time[k]
              /\ last_flush <= now)
    /\ [][/\ \A k \in Tasks : TakesBatch(k) => last_flush' = now
          /\ last_flush' # last_flush =>
                 \E k \in Tasks : TakesBatch(k) /\ ~InFlight(k)
          /\ last_flush' >= last_flush]_vars

\* C36 witness: an upload failed after the clock had moved, the batch is back
\* in the buffer and _last_flush is still the time of the snapshot.
C36_StampKeptAfterFailedUpload ==
    /\ send_returned.cause \in UploadFailures
    /\ metrics_buffer # <<>>
    /\ last_flush = now
    /\ now > 0


\* C37: however token exchanges overlap, _iam_token and _token_expires_at
\* are written in one step by the exchange that got the token, and the
\* deadline written is that call's current_time plus 3300 s: a cached token
\* is never held for use later than 3300 s after it was issued.
C37_TokenAndDeadlineWrittenTogether ==
    /\ []((iam_token = 0) <=> (token_expires_at = 0))
    /\ [](iam_token # 0 => token_expires_at <= now + TokenRefreshAfter)
    /\ [][(iam_token' # iam_token \/ token_expires_at' # token_expires_at) =>
              \E k \in Tasks :
                  /\ pc[k] = "exchange"
                  /\ pc'[k] = "upload"
                  /\ iam_token' # iam_token
                  /\ iam_token' = tok'[k]
                  /\ token_expires_at' = current_time[k] + TokenRefreshAfter
                  /\ token_expires_at' <= now + TokenRefreshAfter]_vars

\* C37 witness: two exchanges overlapped; the later one to end has its token
\* and its deadline in the cache while the earlier one still uploads with
\* its own token.
C37_SecondOfTwoExchangesCached ==
    \E j, k \in Tasks :
        /\ j # k
        /\ pc[j] = "upload" /\ via[j] = "fresh"
        /\ pc[k] = "upload" /\ via[k] = "fresh"
        /\ tok[j] < tok[k]
        /\ iam_token = tok[k]
        /\ token_expires_at = current_time[k] + TokenRefreshAfter


\* C38: send_metrics changes neither its argument (the list, the labels and
\* the points of its metrics) nor base_labels, so a second call with the
\* same metrics, as for a batch put back after a failed send, builds the
\* same upload body.
C38_SendLeavesInputsUnchanged ==
    /\ [](base_labels = InitialBaseLabels)
    /\ [](sent_before # NoPayload => payload = sent_before)
    /\ [][metrics' = metrics /\ base_labels' = base_labels]_vars

\* C38 witness: a batch of metrics with labels of their own, one of them
\* overriding a base label, was sent a second time.
C38_SameBodySentTwice ==
    /\ sent_before # NoPayload
    /\ payload = sent_before
    /\ Len(metrics) = MaxBatch
    /\ \A i \in 1..Len(metrics) : metrics[i].labels = CallerLabels
    /\ base_labels.service = "property-management"


\* ------------------------------------------------- the global accessors

\* The process changes YC_MONITORING_ENABLED (os.environ), which the
\* accessors read at every call (line 297).
SetEnabled ==
    /\ enabled' = ~enabled
    /\ UNCHANGED <<metrics_buffer, last_flush, iam_token, token_expires_at,
                   key_material, now, ticks, n_added, issued, delivered, pc,
                   metrics_to_send, current_time, tok, wake_at, via,
                   snap_added, after_raise, raised_with, yc_monitoring,
                   metrics_collector, lifespan, tracked, flush_sends,
                   send_returned, waiting_since, instances, got>>
    /\ UNCHANGED wire

\* A call of get_yc_monitoring() (lines 294-301), as health_check makes
\* (usage example, line 142).
GetYcMonitoringCall ==
    /\ Constructs("get_yc_monitoring")
    /\ Returns({"get_yc_monitoring"})
    /\ UNCHANGED <<metrics_buffer, last_flush, iam_token, token_expires_at,
                   key_material, now, ticks, n_added, issued, delivered, pc,
                   metrics_to_send, current_time, tok, wake_at, via,
                   snap_added, after_raise, raised_with, enabled, lifespan,
                   tracked, flush_sends, send_returned, waiting_since>>
    /\ UNCHANGED wire

\* A call of get_metrics_collector() (lines 304-312), as the constructors of
\* the middleware and of BusinessMetricsCollector make (middleware.py, lines
\* 21 and 107).
GetMetricsCollectorCall ==
    /\ Constructs("get_metrics_collector")
    /\ Returns({"get_metrics_collector"})
    /\ UNCHANGED <<metrics_buffer, last_flush, iam_token, token_expires_at,
                   key_material, now, ticks, n_added, issued, delivered, pc,
                   metrics_to_send, current_time, tok, wake_at, via,
                   snap_added, after_raise, raised_with, enabled, lifespan,
                   tracked, flush_sends, send_returned, waiting_since>>
    /\ UNCHANGED wire

AccessorNext ==
    \/ SetEnabled
    \/ GetYcMonitoringCall
    \/ GetMetricsCollectorCall
    \/ LifespanStartup

\* The accessors called in any order while the flag changes, before the
\* lifespan starts and after its accessor calls (usage example, lines 18
\* and 24).
AccessorSpec == Init /\ [][AccessorNext]_vars

\* C39: the accessors construct at most one YandexCloudMonitoring and at most
\* one MetricsCollector; a global that is set stays set, and every later call
\* returns that same instance whatever the flag says by then;
\* get_metrics_collector() returns None exactly when there is no exporter
\* after its get_yc_monitoring() call.
C39_OneExporterOneCollector ==
    /\ [](instances.yc <= 1 /\ instances.mc <= 1)
    /\ []((yc_monitoring <=> instances.yc = 1)
             /\ (metrics_collector <=> instances.mc = 1))
    /\ [](metrics_collector => yc_monitoring)
    /\ [][/\ yc_monitoring => yc_monitoring'
          /\ metrics_collector => metrics_collector'
          /\ \A fn \in Accessors :
                 got[fn].value >= 1 => got'[fn].value = got[fn].value
          /\ (GetYcMonitoringCall /\ yc_monitoring) =>
                 /\ got'["get_yc_monitoring"].value = instances.yc
                 /\ instances' = instances
          /\ (GetMetricsCollectorCall /\ metrics_collector) =>
                 /\ got'["get_metrics_collector"].value = instances.mc
                 /\ instances' = instances
          /\ (GetMetricsCollectorCall \/ LifespanStartup) =>
                 (got'["get_metrics_collector"].value = 0 <=> ~yc_monitoring')]_vars

\* C39 witness: with the flag off by then, get_metrics_collector() returned
\* the one collector constructed while it was on.
C39_SameCollectorWithFlagOff ==
    /\ got["get_metrics_collector"] = [flag |-> FALSE, value |-> 1]
    /\ got["get_yc_monitoring"] = [flag |-> FALSE, value |-> 1]
    /\ instances = [yc |-> 1, mc |-> 1]


=============================================================================
